---- MODULE Spec2Model ----
(***************************************************************************)
(* Model of docker-waiter's MCP server (src/src/index.ts): the tool list,  *)
(* the CallTool dispatcher with its zod validation and catch block, the    *)
(* eight handlers, the shell that child_process.exec hands the command     *)
(* line to, and JSON.parse / JSON.stringify as used by dockerInspect.      *)
(*                                                                         *)
(* Text is a sequence of tokens.  A token is either one character          *)
(* ("a", ";", " ", "[", ...) or a fixed piece of a template literal        *)
(* ("docker", "--tail", ...), which the shell treats as word characters.   *)
(***************************************************************************)
EXTENDS Integers, Sequences, FiniteSets, TLC

VARIABLES req, listed

vars == <<req, listed>>

(***************************************************************************)
(* Bounds                                                                  *)
(***************************************************************************)
MaxLen == 2        \* longest container string drawn
MaxOut == 1        \* longest runtime output drawn in Spec
MaxJson == 5       \* longest runtime output drawn in SpecInspect
MaxInFlight == 2   \* request slots in SpecConc

(***************************************************************************)
(* JavaScript values of the argument bag                                   *)
(***************************************************************************)
JUndef == [t |-> "undefined", s |-> <<>>, h |-> 0, b |-> FALSE]

JStr(x) == [t |-> "string", s |-> x, h |-> 0, b |-> FALSE]

\* a number is kept as twice its value, so that 1.5 is h = 3
JNum(x) == [t |-> "number", s |-> <<>>, h |-> x, b |-> FALSE]

JNaN == [t |-> "nan", s |-> <<>>, h |-> 0, b |-> FALSE]

JBool(x) == [t |-> "boolean", s |-> <<>>, h |-> 0, b |-> x]

\* request.params.arguments: obj = FALSE when the request carries none
Bag(o, c, tl, ns, f) ==
  [obj |-> o, container |-> c, tail |-> tl, no_stream |-> ns, force |-> f]

NoArgs == Bag(FALSE, JUndef, JUndef, JUndef, JUndef)

EmptyObj == Bag(TRUE, JUndef, JUndef, JUndef, JUndef)

Alphabet == {"a", ";", " "}

Strings(n) == UNION {[1..k -> Alphabet] : k \in 0..n}

ContainerVals == {JUndef, JNum(2)} \cup {JStr(x) : x \in Strings(MaxLen)}

\* -1, 0, 1, 1.5 and 100
TailHalves == {-2, 0, 2, 3, 200}

TailVals == {JUndef, JStr(<<"a">>), JNaN} \cup {JNum(x) : x \in TailHalves}

BoolVals == {JUndef, JBool(TRUE), JBool(FALSE), JStr(<<"a">>)}

(***************************************************************************)
(* Tool registry                                                           *)
(***************************************************************************)
Descriptor(n, p, r) == [name |-> n, props |-> p, required |-> r]

Tools ==
  << Descriptor("docker_ps", {}, {}),
     Descriptor("docker_ps_all", {}, {}),
     Descriptor("docker_port", {"container"}, {"container"}),
     Descriptor("docker_logs", {"container", "tail"}, {"container"}),
     Descriptor("docker_inspect", {"container"}, {"container"}),
     Descriptor("docker_stats", {"no_stream"}, {}),
     Descriptor("docker_images", {}, {}),
     Descriptor("docker_delete", {"container", "force"}, {"container"}) >>

ToolNames(ts) == {ts[i].name : i \in 1..Len(ts)}

\* the names a caller may send: the advertised ones and one that is not
Names == ToolNames(Tools) \cup {"docker_run"}

(***************************************************************************)
(* zod schemas                                                             *)
(***************************************************************************)
ZString(v) == v.t = "string"

ZNumberOptional(v) == v.t \in {"number", "undefined"}

ZBooleanOptional(v) == v.t \in {"boolean", "undefined"}

DockerPortArgsSchema(args) == args.obj /\ ZString(args.container)

DockerLogsArgsSchema(args) ==
  args.obj /\ ZString(args.container) /\ ZNumberOptional(args.tail)

DockerInspectArgsSchema(args) == args.obj /\ ZString(args.container)

DockerStatsArgsSchema(args) == args.obj /\ ZBooleanOptional(args.no_stream)

DockerDeleteArgsSchema(args) ==
  args.obj /\ ZString(args.container) /\ ZBooleanOptional(args.force)

(***************************************************************************)
(* Number to text, as a template literal does it                           *)
(***************************************************************************)
NumStr(x) ==
  LET a == IF x < 0 THEN -x ELSE x
      body == IF a % 2 = 0 THEN ToString(a \div 2)
              ELSE ToString(a \div 2) \o ".5"
  IN  IF x < 0 THEN "-" \o body ELSE body

(***************************************************************************)
(* Command lines                                                           *)
(***************************************************************************)
PsFormat == "\"table {{.ID}}\\t{{.Names}}\\t{{.Image}}\\t{{.Status}}\\t{{.Ports}}\""

ImagesFormat == "\"table {{.Repository}}\\t{{.Tag}}\\t{{.ID}}\\t{{.CreatedAt}}\\t{{.Size}}\""

dockerPsCommand == <<"docker", " ", "ps", " ", "--format", " ", PsFormat>>

dockerPsAllCommand ==
  <<"docker", " ", "ps", " ", "-a", " ", "--format", " ", PsFormat>>

dockerPortCommand(container) == <<"docker", " ", "port", " ">> \o container

dockerLogsCommand(container, tail) ==
  <<"docker", " ", "logs", " ", "--tail", " ", NumStr(tail), " ">> \o container

dockerInspectCommand(container) == <<"docker", " ", "inspect", " ">> \o container

dockerStatsCommand(noStream) ==
  IF noStream THEN <<"docker", " ", "stats", " ", "--no-stream">>
  ELSE <<"docker", " ", "stats">>

dockerImagesCommand == <<"docker", " ", "images", " ", "--format", " ", ImagesFormat>>

dockerDeleteCommand(container, force) ==
  IF force THEN <<"docker", " ", "rm", " ", "-f", " ">> \o container
  ELSE <<"docker", " ", "rm", " ">> \o container

(***************************************************************************)
(* The shell child_process.exec runs the command line in: control          *)
(* operators end a simple command, blanks end a word.  A word is a         *)
(* sequence of tokens, a simple command a sequence of words.               *)
(***************************************************************************)
ControlOps == {";", "|", "&"}

Blanks == {" ", "\t", "\n"}

RECURSIVE SplitOn(_, _, _, _)
\* the pieces of text between the tokens of seps, empty pieces included
SplitOn(text, seps, cur, acc) ==
  IF text = <<>> THEN Append(acc, cur)
  ELSE IF Head(text) \in seps THEN SplitOn(Tail(text), seps, <<>>, Append(acc, cur))
  ELSE SplitOn(Tail(text), seps, Append(cur, Head(text)), acc)

NonEmpty(x) == x # <<>>

ShellWords(segment) == SelectSeq(SplitOn(segment, Blanks, <<>>, <<>>), NonEmpty)

\* the simple commands the shell runs for a command line; a line with an
\* empty command before a control operator is a syntax error and runs none
ShellCommands(cmd) ==
  LET segs == SplitOn(cmd, ControlOps, <<>>, <<>>)
      argvs == [i \in 1..Len(segs) |-> ShellWords(segs[i])]
  IN  IF \E i \in 1..(Len(segs) - 1) : argvs[i] = <<>> THEN <<>>
      ELSE SelectSeq(argvs, NonEmpty)

(***************************************************************************)
(* JSON.parse and JSON.stringify(data, null, 2) on arrays and numbers      *)
(***************************************************************************)
JsonAlphabet == {"[", "]", ",", "1", " "}

Texts(n) == UNION {[1..k -> JsonAlphabet] : k \in 0..n}

JsonWs == {" ", "\n", "\t"}

JsonDigits == {"0", "1", "2", "3", "4", "5", "6", "7", "8", "9"}

JNumber(x) == [k |-> "num", n |-> x, items |-> <<>>]

JArray(xs) == [k |-> "arr", n |-> 0, items |-> xs]

ParseFail == [ok |-> FALSE, v |-> JNumber(0), i |-> 0]

ParseOk(x, j) == [ok |-> TRUE, v |-> x, i |-> j]

DigitValue(d) == CHOOSE x \in 0..9 : ToString(x) = d

RECURSIVE SkipWs(_, _)
SkipWs(t, i) == IF i <= Len(t) /\ t[i] \in JsonWs THEN SkipWs(t, i + 1) ELSE i

RECURSIVE ParseDigits(_, _, _)
ParseDigits(t, i, acc) ==
  IF i <= Len(t) /\ t[i] \in JsonDigits
  THEN ParseDigits(t, i + 1, acc * 10 + DigitValue(t[i]))
  ELSE ParseOk(JNumber(acc), i)

RECURSIVE ParseValue(_, _)
RECURSIVE ParseElements(_, _, _)
ParseValue(t, i) ==
  LET j == SkipWs(t, i)
  IN  IF j > Len(t) THEN ParseFail
      ELSE IF t[j] = "0" THEN ParseOk(JNumber(0), j + 1)
      ELSE IF t[j] \in JsonDigits THEN ParseDigits(t, j, 0)
      ELSE IF t[j] = "["
      THEN LET k == SkipWs(t, j + 1)
           IN  IF k <= Len(t) /\ t[k] = "]" THEN ParseOk(JArray(<<>>), k + 1)
               ELSE ParseElements(t, j + 1, <<>>)
      ELSE ParseFail

ParseElements(t, i, acc) ==
  LET e == ParseValue(t, i)
  IN  IF ~e.ok THEN ParseFail
      ELSE LET k == SkipWs(t, e.i)
           IN  IF k > Len(t) THEN ParseFail
               ELSE IF t[k] = "," THEN ParseElements(t, k + 1, Append(acc, e.v))
               ELSE IF t[k] = "]" THEN ParseOk(JArray(Append(acc, e.v)), k + 1)
               ELSE ParseFail

\* ok = FALSE is the SyntaxError JSON.parse throws
JSONParse(t) ==
  LET p == ParseValue(t, 1)
  IN  IF p.ok /\ SkipWs(t, p.i) > Len(t) THEN p ELSE ParseFail

RECURSIVE Digits(_)
Digits(x) ==
  IF x < 10 THEN <<ToString(x)>> ELSE Digits(x \div 10) \o <<ToString(x % 10)>>

Indent(level) == [i \in 1..(2 * level) |-> " "]

RECURSIVE JSONStringify(_, _)
RECURSIVE StringifyItems(_, _, _)
JSONStringify(x, level) ==
  IF x.k = "num" THEN Digits(x.n)
  ELSE IF x.items = <<>> THEN <<"[", "]">>
  ELSE <<"[", "\n">> \o StringifyItems(x.items, 1, level + 1)
       \o <<"\n">> \o Indent(level) \o <<"]">>

StringifyItems(xs, i, level) ==
  LET one == Indent(level) \o JSONStringify(xs[i], level)
  IN  IF i = Len(xs) THEN one
      ELSE one \o <<",", "\n">> \o StringifyItems(xs, i + 1, level)

(***************************************************************************)
(* Errors thrown inside the handler, and what the caller receives          *)
(***************************************************************************)
NoError == [cls |-> "none", code |-> "none", message |-> <<>>]

ZodError == [cls |-> "ZodError", code |-> "none", message |-> <<"invalid_type">>]

McpError(code, message) ==
  [cls |-> "McpError", code |-> code, message |-> <<"MCP error", code>> \o message]

\* the rejection of execAsync on a non-zero exit
ExecError(cmd, stderr) ==
  [cls |-> "Error", code |-> "none",
   message |-> <<"Command failed:">> \o cmd \o <<"\n", stderr>>]

SyntaxError == [cls |-> "SyntaxError", code |-> "none", message |-> <<"Unexpected token">>]

NoOutcome == [kind |-> "none", code |-> "none", msg |-> <<>>, text |-> <<>>]

\* return { content: [{ type: 'text', text }] }
Returned(text) == [kind |-> "success", code |-> "none", msg |-> <<>>, text |-> text]

\* an McpError leaving the handler
Failed(error) == [kind |-> "error", code |-> error.code, msg |-> error.message, text |-> <<>>]

\* a catch block that swallows what is no ZodError and answers with no text
CatchBlockSwallow(name, error) ==
  IF error.cls = "ZodError"
  THEN Failed(McpError("InvalidParams", <<"Invalid arguments for", name>> \o error.message))
  ELSE Returned(<<>>)

CatchBlock(name, error) ==
  IF error.cls = "ZodError"
  THEN Failed(McpError("InvalidParams", <<"Invalid arguments for", name>> \o error.message))
  ELSE Failed(McpError("InternalError", <<"Error executing", name>> \o error.message))

(***************************************************************************)
(* The CallTool handler up to its await of execAsync                       *)
(***************************************************************************)
DefaultTail == 100

\* validatedArgs.tail || 100, in halves
TailOrDefault(tail) ==
  IF tail.t = "undefined" \/ tail.h = 0 THEN 2 * DefaultTail ELSE tail.h

\* validatedArgs.no_stream !== false
NoStreamOrDefault(no_stream) == ~(no_stream.t = "boolean" /\ no_stream.b = FALSE)

\* validatedArgs.force || false
ForceOrDefault(force) == force.t = "boolean" /\ force.b

CaseLabels ==
  {"docker_ps", "docker_ps_all", "docker_port", "docker_logs", "docker_inspect",
   "docker_stats", "docker_images", "docker_delete"}

\* a switch that lost its docker_images case
CaseLabelNoImages(name) ==
  IF name \in {"docker_ps", "docker_ps_all", "docker_port", "docker_logs",
               "docker_inspect", "docker_stats", "docker_delete"}
  THEN name ELSE "default"

CaseLabel(name) == IF name \in CaseLabels THEN name ELSE "default"

Await(branch, container, cmd) ==
  [k |-> "await", branch |-> branch, container |-> container, cmd |-> cmd,
   err |-> NoError]

Throw(branch, error) ==
  [k |-> "throw", branch |-> branch, container |-> <<>>, cmd |-> <<>>,
   err |-> error]

CallToolStart(name, args) ==
  LET label == CaseLabel(name)
  IN  CASE label = "docker_ps" -> Await(label, <<>>, dockerPsCommand)
        [] label = "docker_ps_all" -> Await(label, <<>>, dockerPsAllCommand)
        [] label = "docker_port" ->
             IF DockerPortArgsSchema(args)
             THEN Await(label, args.container.s, dockerPortCommand(args.container.s))
             ELSE Throw(label, ZodError)
        [] label = "docker_logs" ->
             IF DockerLogsArgsSchema(args)
             THEN Await(label, args.container.s,
                        dockerLogsCommand(args.container.s, TailOrDefault(args.tail)))
             ELSE Throw(label, ZodError)
        [] label = "docker_inspect" ->
             IF DockerInspectArgsSchema(args)
             THEN Await(label, args.container.s, dockerInspectCommand(args.container.s))
             ELSE Throw(label, ZodError)
        [] label = "docker_stats" ->
             IF DockerStatsArgsSchema(args)
             THEN Await(label, <<>>, dockerStatsCommand(NoStreamOrDefault(args.no_stream)))
             ELSE Throw(label, ZodError)
        [] label = "docker_images" -> Await(label, <<>>, dockerImagesCommand)
        [] label = "docker_delete" ->
             IF DockerDeleteArgsSchema(args)
             THEN Await(label, args.container.s,
                        dockerDeleteCommand(args.container.s, ForceOrDefault(args.force)))
             ELSE Throw(label, ZodError)
        [] OTHER -> Throw(label, McpError("MethodNotFound", <<"Unknown tool:", name>>))

(***************************************************************************)
(* The handlers after execAsync resolved with stdout                       *)
(***************************************************************************)
Ret(text) == [err |-> NoError, text |-> text]

Thr(error) == [err |-> error, text |-> <<>>]

dockerPs(stdout) == Ret(stdout)

dockerPsAll(stdout) == Ret(stdout)

dockerPort(stdout) == Ret(IF stdout = <<>> THEN <<"No ports mapped">> ELSE stdout)

dockerLogs(stdout) == Ret(stdout)

\* a dockerInspect that hands back what it cannot parse
dockerInspectLenient(stdout) ==
  LET data == JSONParse(stdout)
  IN  IF data.ok THEN Ret(JSONStringify(data.v, 0)) ELSE Ret(stdout)

dockerInspect(stdout) ==
  LET data == JSONParse(stdout)
  IN  IF data.ok THEN Ret(JSONStringify(data.v, 0)) ELSE Thr(SyntaxError)

dockerStats(stdout) == Ret(stdout)

dockerImages(stdout) == Ret(stdout)

dockerDelete(container) ==
  Ret(<<"Container", " ">> \o container \o <<" ", "deleted successfully">>)

CallToolResume(branch, container, stdout) ==
  LET res == CASE branch = "docker_ps" -> dockerPs(stdout)
               [] branch = "docker_ps_all" -> dockerPsAll(stdout)
               [] branch = "docker_port" -> dockerPort(stdout)
               [] branch = "docker_logs" -> dockerLogs(stdout)
               [] branch = "docker_inspect" -> dockerInspect(stdout)
               [] branch = "docker_stats" -> dockerStats(stdout)
               [] branch = "docker_images" -> dockerImages(stdout)
               [] branch = "docker_delete" -> dockerDelete(container)
  IN  IF res.err.cls = "none" THEN Returned(res.text) ELSE CatchBlock(branch, res.err)

(***************************************************************************)
(* State: one record per request slot of the server, and the last answer   *)
(* to tools/list                                                           *)
(***************************************************************************)
Idle ==
  [pc |-> "idle", name |-> "", args |-> NoArgs, branch |-> "", container |-> <<>>,
   cmd |-> <<>>, argvs |-> <<>>, execs |-> 0, exit |-> 0, stdout |-> <<>>,
   stderr |-> "", outcome |-> NoOutcome, nres |-> 0]

Stderrs == {"No such container", "You cannot remove a running container"}

Objects(cs, ts, ns, fs) ==
  {Bag(TRUE, c, tl, n, f) : c \in cs, tl \in ts, n \in ns, f \in fs}

PlainBags == {NoArgs, EmptyObj, Bag(TRUE, JStr(<<"a">>), JUndef, JUndef, JUndef)}

ContainerBags == {NoArgs} \cup Objects(ContainerVals, {JUndef}, {JUndef}, {JUndef})

LogsBags == {NoArgs} \cup Objects(ContainerVals, TailVals, {JUndef}, {JUndef})

StatsBags == {NoArgs} \cup Objects({JUndef}, {JUndef}, BoolVals, {JUndef})

DeleteBags == {NoArgs} \cup Objects(ContainerVals, {JUndef}, {JUndef}, BoolVals)

\* the argument bags drawn for each operation name
AllBags ==
  [n \in Names |->
     CASE n \in {"docker_ps", "docker_ps_all", "docker_images"} -> PlainBags
       [] n \in {"docker_port", "docker_inspect"} -> ContainerBags
       [] n = "docker_logs" -> LogsBags
       [] n = "docker_stats" -> StatsBags
       [] n = "docker_delete" -> DeleteBags
       [] OTHER -> PlainBags \cup LogsBags \cup StatsBags \cup DeleteBags]

\* a narrow choice, for the specifications that widen something else
FewBags == [n \in Names |-> {NoArgs, Bag(TRUE, JStr(<<"a">>), JUndef, JUndef, JUndef)}]

Init ==
  /\ req = [r \in {1} |-> Idle]
  /\ listed = <<>>

InitConc ==
  /\ req = [r \in 1..MaxInFlight |-> Idle]
  /\ listed = <<>>

\* tools/list
ListTools ==
  /\ listed' = Tools
  /\ UNCHANGED req

\* tools/call arrives: the handler runs to its first await, or throws
Arrive(r, bags) ==
  /\ req[r].pc = "idle"
  /\ \E name \in Names : \E args \in bags[name] :
       LET st == CallToolStart(name, args)
       IN  req' = [req EXCEPT ![r] =
             IF st.k = "await"
             THEN [Idle EXCEPT !.pc = "running", !.name = name, !.args = args,
                               !.branch = st.branch, !.container = st.container,
                               !.cmd = st.cmd, !.argvs = ShellCommands(st.cmd),
                               !.execs = 1]
             ELSE [Idle EXCEPT !.pc = "done", !.name = name, !.args = args,
                               !.branch = st.branch,
                               !.outcome = CatchBlock(name, st.err), !.nres = 1]]
  /\ UNCHANGED listed

\* the child process exits: execAsync resolves (exit 0) or rejects
ExecExit(r, outs) ==
  /\ req[r].pc = "running"
  /\ \/ \E out \in outs :
          req' = [req EXCEPT ![r].pc = "done", ![r].exit = 0, ![r].stdout = out,
                    ![r].outcome = CallToolResume(req[r].branch, req[r].container, out),
                    ![r].nres = req[r].nres + 1]
     \/ \E e \in Stderrs :
          req' = [req EXCEPT ![r].pc = "done", ![r].exit = 1, ![r].stderr = e,
                    ![r].outcome = CatchBlock(req[r].name, ExecError(req[r].cmd, e)),
                    ![r].nres = req[r].nres + 1]
  /\ UNCHANGED listed

\* the response leaves; the slot is free again
Respond(r) ==
  /\ req[r].pc = "done"
  /\ req' = [req EXCEPT ![r] = Idle]
  /\ UNCHANGED listed

Next ==
  \/ ListTools
  \/ \E r \in DOMAIN req : Arrive(r, AllBags)
  \/ \E r \in DOMAIN req : ExecExit(r, Texts(MaxOut))
  \/ \E r \in DOMAIN req : Respond(r)

Spec == Init /\ [][Next]_vars

\* one request at a time, the runtime's output drawn from longer texts
NextInspect ==
  \/ ListTools
  \/ \E r \in DOMAIN req : Arrive(r, FewBags)
  \/ \E r \in DOMAIN req : ExecExit(r, Texts(MaxJson))
  \/ \E r \in DOMAIN req : Respond(r)

SpecInspect == Init /\ [][NextInspect]_vars

\* several requests in flight: the SDK starts the handler for each message
\* as it arrives and does not wait for the previous one
NextConc ==
  \/ ListTools
  \/ \E r \in DOMAIN req : Arrive(r, FewBags)
  \/ \E r \in DOMAIN req : ExecExit(r, Texts(0))
  \/ \E r \in DOMAIN req : Respond(r)

SpecConc == InitConc /\ [][NextConc]_vars

(***************************************************************************)
(* Properties                                                              *)
(***************************************************************************)
Slots == DOMAIN req

ContainerOps == {"docker_port", "docker_logs", "docker_inspect", "docker_delete"}

Metachars == ControlOps \cup Blanks \cup {"$"}

HasMeta(x) == \E i \in 1..Len(x) : x[i] \in Metachars

IsBlank(x) == \A i \in 1..Len(x) : x[i] \in Blanks

Rejected(r) ==
  /\ req[r].pc = "done"
  /\ req[r].execs = 0
  /\ req[r].outcome.kind = "error"
  /\ req[r].outcome.code = "InvalidParams"

\* the single docker command of the request, its last argument the container
OneOpaqueArgument(r) ==
  LET plain == CallToolStart(req[r].name, [req[r].args EXCEPT !.container = JStr(<<"a">>)])
      argv == ShellCommands(plain.cmd)[1]
  IN  req[r].argvs = << [argv EXCEPT ![Len(argv)] = req[r].args.container.s] >>

\* C1: for docker_port, docker_logs, docker_inspect and docker_delete, a
\* container value holding a shell metacharacter is either rejected as
\* InvalidParams before any process starts, or reaches the runtime as the one
\* opaque argument of the one intended docker command.
C1_NoInjection ==
  \A r \in Slots :
    (/\ req[r].pc # "idle"
     /\ req[r].name \in ContainerOps
     /\ req[r].args.container.t = "string"
     /\ HasMeta(req[r].args.container.s))
    => (Rejected(r) \/ (req[r].execs = 1 /\ OneOpaqueArgument(r)))

\* C2: a name that is not registered ends with the MethodNotFound
\* (UnknownOperation) error, whatever the arguments, and starts no process.
C2_UnknownOperation ==
  \A r \in Slots :
    (req[r].pc = "done" /\ req[r].name \notin ToolNames(Tools))
    => /\ req[r].outcome.kind = "error"
       /\ req[r].outcome.code = "MethodNotFound"
       /\ req[r].execs = 0

InList(x, xs) == \E i \in 1..Len(xs) : xs[i] = x

\* C3: a request starts the runtime at most once and ends in exactly one
\* outcome; when the process exits non-zero the outcome is an InternalError
\* (ExecutionFailure) whose message carries the runtime's error text, never a
\* success.
C3_ExecutionFailure ==
  \A r \in Slots :
    /\ req[r].execs <= 1
    /\ req[r].nres <= 1
    /\ req[r].pc = "done"
       => (req[r].nres = 1 /\ req[r].outcome.kind \in {"success", "error"})
    /\ req[r].pc # "done" => (req[r].nres = 0 /\ req[r].outcome.kind = "none")
    /\ (req[r].pc = "done" /\ req[r].execs = 1 /\ req[r].exit # 0)
       => /\ req[r].outcome.kind = "error"
          /\ req[r].outcome.code = "InternalError"
          /\ InList(req[r].stderr, req[r].outcome.msg)

C3_Witness ==
  /\ req[1].pc = "done"
  /\ req[1].name = "docker_delete"
  /\ req[1].args.force = JUndef
  /\ req[1].execs = 1
  /\ req[1].exit = 1
  /\ req[1].stderr = "You cannot remove a running container"
  /\ req[1].outcome.kind = "error"

\* C4: for the four operations that take a container, a request whose
\* container is absent, not a string, or blank after trimming is rejected with
\* InvalidParams and never reaches the handler.
C4_BlankContainerRejected ==
  \A r \in Slots :
    (/\ req[r].pc # "idle"
     /\ req[r].name \in ContainerOps
     /\ \/ ~req[r].args.obj
        \/ req[r].args.container.t # "string"
        \/ IsBlank(req[r].args.container.s))
    => Rejected(r)

\* C5: for docker_logs a tail that is present and negative, fractional or not
\* a number is rejected with InvalidParams and never reaches the runtime.
C5_TailRejected ==
  \A r \in Slots :
    (/\ req[r].pc # "idle"
     /\ req[r].name = "docker_logs"
     /\ req[r].args.tail.t # "undefined"
     /\ \/ req[r].args.tail.t # "number"
        \/ req[r].args.tail.h < 0
        \/ req[r].args.tail.h % 2 # 0)
    => Rejected(r)

\* the request in slot r went the way the same request with arguments other
\* goes: the same command, or the same error
SameAs(r, other) ==
  LET st == CallToolStart(req[r].name, other)
  IN  /\ (st.k = "throw") = (req[r].execs = 0)
      /\ st.cmd = req[r].cmd
      /\ req[r].execs = 0 => req[r].outcome = CatchBlock(req[r].name, st.err)

\* C6: leaving out an optional parameter is the same as giving its default:
\* docker_logs without tail as with tail = 100, docker_stats without
\* no_stream (also with no arguments at all) as with no_stream = true,
\* docker_delete without force as with force = false.
C6_OmittedIsDefault ==
  \A r \in Slots :
    req[r].pc # "idle" =>
      /\ (req[r].name = "docker_logs" /\ req[r].args.tail = JUndef)
         => SameAs(r, [req[r].args EXCEPT !.tail = JNum(2 * 100)])
      /\ (req[r].name = "docker_stats" /\ req[r].args.no_stream = JUndef)
         => SameAs(r, [req[r].args EXCEPT !.obj = TRUE, !.no_stream = JBool(TRUE)])
      /\ (req[r].name = "docker_delete" /\ req[r].args.force = JUndef)
         => SameAs(r, [req[r].args EXCEPT !.force = JBool(FALSE)])

\* C7: docker_inspect answers with a success only when the runtime's output
\* is well-formed JSON, and the text it answers with parses back to the
\* structure the runtime emitted; output that is not JSON ends in an
\* InternalError (ExecutionFailure), never in a success.
C7_InspectRoundTrip ==
  \A r \in Slots :
    (/\ req[r].pc = "done"
     /\ req[r].name = "docker_inspect"
     /\ req[r].execs = 1
     /\ req[r].exit = 0)
    => /\ req[r].outcome.kind = "success"
          => /\ JSONParse(req[r].stdout).ok
             /\ JSONParse(req[r].outcome.text).ok
             /\ JSONParse(req[r].outcome.text).v = JSONParse(req[r].stdout).v
       /\ ~JSONParse(req[r].stdout).ok
          => /\ req[r].outcome.kind = "error"
             /\ req[r].outcome.code = "InternalError"

C7_Witness ==
  /\ req[1].pc = "done"
  /\ req[1].name = "docker_inspect"
  /\ req[1].exit = 0
  /\ req[1].stdout = <<"[", "1", ",", "1", "]">>
  /\ req[1].outcome.kind = "success"
  /\ req[1].outcome.text # req[1].stdout

\* C8: tools/list answers with the same eight descriptors every time, each
\* name once, and the dispatcher routes a name to a handler exactly when the
\* registry advertises it.
C8_RegistryInSync ==
  /\ listed # <<>> => (Len(listed) = 8 /\ Cardinality(ToolNames(listed)) = 8)
  /\ \A r \in Slots :
       req[r].pc # "idle" =>
         /\ (req[r].branch # "default") = (req[r].name \in ToolNames(Tools))
         /\ req[r].branch # "default" => req[r].branch = req[r].name

C8_Witness ==
  /\ listed # <<>>
  /\ req[1].pc = "done"
  /\ req[1].name = "docker_images"
  /\ req[1].branch = "docker_images"
  /\ req[1].outcome.kind = "success"

\* C9: at most one request of a server is in flight: two runtime processes
\* it spawned never run at the same time.
C9_OneInFlight == Cardinality({r \in Slots : req[r].pc = "running"}) <= 1

\* C10: for every tail that passes validation and is a non-negative integer,
\* 0 included, docker_logs asks the runtime for exactly that many lines; 100
\* is used only when tail is absent.
C10_TailPassedOn ==
  \A r \in Slots :
    (/\ req[r].pc # "idle"
     /\ req[r].name = "docker_logs"
     /\ req[r].execs = 1
     /\ \/ req[r].args.tail.t = "undefined"
        \/ (req[r].args.tail.h >= 0 /\ req[r].args.tail.h % 2 = 0))
    => req[r].cmd[7] =
         (IF req[r].args.tail.t = "undefined" THEN "100"
          ELSE NumStr(req[r].args.tail.h))

====
